---- MODULE Spec2Model ----
(***************************************************************************)
(* Model of tools/generate_ipp.py: the walker of main() over the byte      *)
(* values of an encoded IPP message, with the extractors it calls.         *)
(*                                                                         *)
(* Indices are 0-based as in the Python source: byte k of |data| is        *)
(* data[k + 1] of the TLA+ sequence.                                       *)
(*                                                                         *)
(* Every "print(...); raise SystemExit" of the source is a failure with    *)
(* the error kind the specification gives it:                              *)
(*   get_value_type (l.70-72)                -> "UnsupportedValueTag"      *)
(*   check_data_boundary (l.79-81)           -> "OutOfBounds"              *)
(*   "Length must be exactly N" (l.99,110,122,148,162)                     *)
(*                                           -> "InvalidFixedLength"       *)
(*   get_delimiter_name (l.42-43)            -> "UnsupportedDelimiter"     *)
(*   end of input (l.299-301)                -> "UnterminatedMessage"      *)
(* An exception the source does not raise itself but the interpreter does  *)
(* is named after the Python exception: "KeyError", "IndexError".          *)
(***************************************************************************)
EXTENDS Integers, Sequences, FiniteSets, TLC

(***************************************************************************)
(* Bounds of the inputs.                                                   *)
(***************************************************************************)
\* number of leading well-formed chunks (group delimiters, value entries)
MaxChunks == 4
\* distinct sample values: the value of the k-th chunk is sample k % MaxSample
MaxSample == 3
\* a cut or wrongly sized last entry follows MaxCutLead or fewer chunks
MaxCutLead == 2

(***************************************************************************)
(* Python values.                                                          *)
(***************************************************************************)
\* A Python int has no width.  It is kept as the pair <<hi, lo>> of its value
\* hi * 2^16 + lo, with lo in 0..2^16 - 1, so that a value of 32 bits is
\* computed exactly.
BigInt(n) == <<n \div 65536, n % 65536>>
PyBig(pair) == [py |-> "int", v |-> pair]
PyInt(n) == PyBig(BigInt(n))
\* (value * 256) + byte on a pair
MulAdd256(value, byte) ==
  LET low == (value[2] * 256) + byte
  IN <<(value[1] * 256) + (low \div 65536), low % 65536>>
PyBool(b) == [py |-> "bool", v |-> b]
PyStr(codes) == [py |-> "str", v |-> codes]
PyList(elems) == [py |-> "list", v |-> elems]
PyNone == [py |-> "None", v |-> 0]

\* type(x) is list
IsList(x) == x.py = "list"

\* |bytes| as a Python list of ints
IntList(bytes) == PyList([k \in 1..Len(bytes) |-> PyInt(bytes[k])])

(***************************************************************************)
(* An insertion-ordered dict: the sequence of its items.                   *)
(***************************************************************************)
HasKey(d, k) == \E j \in 1..Len(d) : d[j].key = k
KeyIndex(d, k) == CHOOSE j \in 1..Len(d) : d[j].key = k
DictGet(d, k) == d[KeyIndex(d, k)].val
\* d[k] = v after del d[k]: the key becomes the last one
DictSet_moves_last(d, k, v) ==
  Append(SelectSeq(d, LAMBDA item : item.key # k), [key |-> k, val |-> v])

\* d[k] = v: a key already present keeps its position
DictSet(d, k, v) ==
  IF HasKey(d, k) THEN [d EXCEPT ![KeyIndex(d, k)].val = v]
  ELSE Append(d, [key |-> k, val |-> v])
DictKeys(d) == [j \in 1..Len(d) |-> d[j].key]

(***************************************************************************)
(* Tag classification.                                                     *)
(***************************************************************************)
is_ipp_delimiter(ascii_val) == ascii_val \in {1, 2, 3, 4}

get_delimiter_name(ipp_delimiter) ==
  CASE ipp_delimiter = 1 -> "operationAttributes"
    [] ipp_delimiter = 2 -> "jobAttributes"
    [] ipp_delimiter = 3 -> "endOfAttributes"
    [] ipp_delimiter = 4 -> "printerAttributes"
    [] OTHER -> "UnsupportedDelimiter"

values_map ==
  (19 :> "no-value") @@ (33 :> "integer") @@ (34 :> "boolean") @@
  (35 :> "enum") @@ (48 :> "octetString") @@ (49 :> "dateTime") @@
  (50 :> "resolution") @@ (51 :> "rangeOfInteger") @@
  (52 :> "begCollection") @@ (55 :> "endCollection") @@
  (65 :> "textWithoutLanguage") @@ (66 :> "nameWithoutLanguage") @@
  (68 :> "keyword") @@ (69 :> "uri") @@ (70 :> "uriScheme") @@
  (71 :> "charset") @@ (72 :> "naturalLanguage") @@
  (73 :> "mimeMediaType") @@ (74 :> "memberAttrName")

\* an unknown tag falls back to the first type instead of being rejected
get_value_type_default(value_tag) ==
  IF value_tag \notin DOMAIN values_map
  THEN [err |-> "None", type |-> "no-value"]
  ELSE [err |-> "None", type |-> values_map[value_tag]]

get_value_type(value_tag) ==
  IF value_tag \notin DOMAIN values_map
  THEN [err |-> "UnsupportedValueTag", type |-> "None"]
  ELSE [err |-> "None", type |-> values_map[value_tag]]

(***************************************************************************)
(* The cursor reader.  An extractor returns                                *)
(*   err   "None", or the failure raised                                   *)
(*   value the Python value extracted                                      *)
(*   next  the index to continue parsing from                              *)
(*   hi    the highest index of |data| it accessed, -1 if none             *)
(***************************************************************************)
Max(a, b) == IF a >= b THEN a ELSE b

Raise(kind, start, hi) ==
  [err |-> kind, value |-> PyNone, next |-> start, hi |-> hi]

\* the check is off by one: it lets a read one byte past the end through
check_data_boundary_off_by_one(data, start, length) ==
  ~(Len(data) - start + 1 < length)

\* TRUE when the check passes, FALSE when it raises SystemExit
check_data_boundary(data, start, length) == ~(Len(data) - start < length)

\* data[start], ..., data[start + length - 1]; indexing past the end of a
\* Python list raises IndexError at the first index that is out of range
ReadRange(data, start, length) ==
  IF start + length <= Len(data)
  THEN [err |-> "None",
        bytes |-> [k \in 1..length |-> data[start + k]],
        hi |-> IF length = 0 THEN -1 ELSE start + length - 1]
  ELSE [err |-> "IndexError", bytes |-> <<>>, hi |-> Max(start, Len(data))]

\* a slice data[start:start + length] without a boundary check: it is cut at
\* the end of |data|, and the index moves on by |length| all the same
extract_string_value_slices(data, start, length) ==
  LET last == IF start + length <= Len(data) THEN start + length
              ELSE Max(start, Len(data))
  IN [err |-> "None", value |-> PyStr(SubSeq(data, start + 1, last)),
      next |-> start + length,
      hi |-> IF last = start THEN -1 ELSE last - 1]

extract_string_value(data, start, length) ==
  IF ~check_data_boundary(data, start, length)
  THEN Raise("OutOfBounds", start, -1)
  ELSE LET r == ReadRange(data, start, length) IN
       IF r.err # "None" THEN Raise(r.err, start, r.hi)
       ELSE [err |-> "None", value |-> PyStr(r.bytes),
             next |-> start + length, hi |-> r.hi]

extract_byte_value(data, start, length) ==
  IF length # 1 THEN Raise("InvalidFixedLength", start, -1)
  ELSE IF ~check_data_boundary(data, start, length)
  THEN Raise("OutOfBounds", start, -1)
  ELSE LET r == ReadRange(data, start, 1) IN
       IF r.err # "None" THEN Raise(r.err, start, r.hi)
       ELSE [err |-> "None", value |-> PyInt(r.bytes[1]),
             next |-> start + length, hi |-> r.hi]

extract_boolean_value(data, start, length) ==
  IF length # 1 THEN Raise("InvalidFixedLength", start, -1)
  ELSE IF ~check_data_boundary(data, start, length)
  THEN Raise("OutOfBounds", start, -1)
  ELSE LET r == ReadRange(data, start, 1) IN
       IF r.err # "None" THEN Raise(r.err, start, r.hi)
       ELSE [err |-> "None", value |-> PyBool(r.bytes[1] # 0),
             next |-> start + length, hi |-> r.hi]

\* value = (value * 256) + ascii_val over the bytes, first byte first
RECURSIVE Accumulate(_, _)
Accumulate(value, bytes) ==
  IF bytes = <<>> THEN value
  ELSE Accumulate(MulAdd256(value, Head(bytes)), Tail(bytes))

\* only a length above 4 is rejected
extract_integer_value_short(data, start, length) ==
  IF length > 4 THEN Raise("InvalidFixedLength", start, -1)
  ELSE IF ~check_data_boundary(data, start, length)
  THEN Raise("OutOfBounds", start, -1)
  ELSE LET r == ReadRange(data, start, length) IN
       IF r.err # "None" THEN Raise(r.err, start, r.hi)
       ELSE [err |-> "None", value |-> PyBig(Accumulate(BigInt(0), r.bytes)),
             next |-> start + length, hi |-> r.hi]

\* the four bytes are read as a signed (two's-complement) 32-bit number
extract_integer_value_signed(data, start, length) ==
  IF length # 4 THEN Raise("InvalidFixedLength", start, -1)
  ELSE IF ~check_data_boundary(data, start, length)
  THEN Raise("OutOfBounds", start, -1)
  ELSE LET r == ReadRange(data, start, length) IN
       IF r.err # "None" THEN Raise(r.err, start, r.hi)
       ELSE LET n == Accumulate(BigInt(0), r.bytes) IN
            [err |-> "None",
             value |-> PyBig(<<IF n[1] >= 32768 THEN n[1] - 65536 ELSE n[1],
                               n[2]>>),
             next |-> start + length, hi |-> r.hi]

extract_integer_value(data, start, length) ==
  IF length # 4 THEN Raise("InvalidFixedLength", start, -1)
  ELSE IF ~check_data_boundary(data, start, length)
  THEN Raise("OutOfBounds", start, -1)
  ELSE LET r == ReadRange(data, start, length) IN
       IF r.err # "None" THEN Raise(r.err, start, r.hi)
       ELSE [err |-> "None", value |-> PyBig(Accumulate(BigInt(0), r.bytes)),
             next |-> start + length, hi |-> r.hi]

extract_bytes_value(data, start, length) ==
  IF ~check_data_boundary(data, start, length)
  THEN Raise("OutOfBounds", start, -1)
  ELSE LET r == ReadRange(data, start, length) IN
       IF r.err # "None" THEN Raise(r.err, start, r.hi)
       ELSE [err |-> "None", value |-> IntList(r.bytes),
             next |-> start + length, hi |-> r.hi]

\* the index after the two integers is returned: the units byte is read but
\* not skipped
extract_resolution_value_keeps_units(data, start, length) ==
  IF length # 9 THEN Raise("InvalidFixedLength", start, -1)
  ELSE IF ~check_data_boundary(data, start, length)
  THEN Raise("OutOfBounds", start, -1)
  ELSE LET x == extract_integer_value(data, start, 4) IN
       IF x.err # "None" THEN Raise(x.err, start, x.hi)
       ELSE LET y == extract_integer_value(data, x.next, 4) IN
       IF y.err # "None" THEN Raise(y.err, start, Max(x.hi, y.hi))
       ELSE LET u == extract_byte_value(data, y.next, 1) IN
       IF u.err # "None" THEN Raise(u.err, start, Max(y.hi, u.hi))
       ELSE [err |-> "None",
             value |-> PyList(<<x.value, y.value, u.value>>),
             next |-> y.next, hi |-> u.hi]

extract_resolution_value(data, start, length) ==
  IF length # 9 THEN Raise("InvalidFixedLength", start, -1)
  ELSE IF ~check_data_boundary(data, start, length)
  THEN Raise("OutOfBounds", start, -1)
  ELSE LET x == extract_integer_value(data, start, 4) IN
       IF x.err # "None" THEN Raise(x.err, start, x.hi)
       ELSE LET y == extract_integer_value(data, x.next, 4) IN
       IF y.err # "None" THEN Raise(y.err, start, Max(x.hi, y.hi))
       ELSE LET u == extract_byte_value(data, y.next, 1) IN
       IF u.err # "None" THEN Raise(u.err, start, Max(y.hi, u.hi))
       ELSE [err |-> "None",
             value |-> PyList(<<x.value, y.value, u.value>>),
             next |-> u.next, hi |-> u.hi]

extract_range_value(data, start, length) ==
  IF length # 8 THEN Raise("InvalidFixedLength", start, -1)
  ELSE IF ~check_data_boundary(data, start, length)
  THEN Raise("OutOfBounds", start, -1)
  ELSE LET lower == extract_integer_value(data, start, 4) IN
       IF lower.err # "None" THEN Raise(lower.err, start, lower.hi)
       ELSE LET upper == extract_integer_value(data, lower.next, 4) IN
       IF upper.err # "None"
       THEN Raise(upper.err, start, Max(lower.hi, upper.hi))
       ELSE [err |-> "None",
             value |-> PyList(<<lower.value, upper.value>>),
             next |-> upper.next, hi |-> upper.hi]

extract_value(data, value_type, start, length) ==
  IF ~check_data_boundary(data, start, length)
  THEN Raise("OutOfBounds", start, -1)
  ELSE CASE value_type \in {"integer", "enum"} ->
              extract_integer_value(data, start, length)
         [] value_type = "boolean" ->
              extract_boolean_value(data, start, length)
         [] value_type \in {"octetString", "dateTime"} ->
              extract_bytes_value(data, start, length)
         [] value_type = "resolution" ->
              extract_resolution_value(data, start, length)
         [] value_type = "rangeOfInteger" ->
              extract_range_value(data, start, length)
         [] value_type \in {"no-value", "begCollection", "endCollection",
                            "textWithoutLanguage", "nameWithoutLanguage",
                            "keyword", "uri", "uriScheme", "charset",
                            "naturalLanguage", "mimeMediaType",
                            "memberAttrName"} ->
              extract_string_value(data, start, length)
         [] OTHER -> Raise("NotInFunctionMap", start, -1)

extract_length(data, start) ==
  IF ~check_data_boundary(data, start, 2)
  THEN Raise("OutOfBounds", start, -1)
  ELSE LET r == ReadRange(data, start, 2) IN
       IF r.err # "None" THEN Raise(r.err, start, r.hi)
       ELSE [err |-> "None", value |-> (256 * r.bytes[1]) + r.bytes[2],
             next |-> start + 2, hi |-> r.hi]

(***************************************************************************)
(* The attribute assembler.  Both return err and the new dict.             *)
(***************************************************************************)
\* attributes[group] of a missing key raises KeyError; index -1 of an empty
\* list raises IndexError
extend_attribute_values(attributes, group, value) ==
  IF ~HasKey(attributes, group)
  THEN [err |-> "KeyError", attributes |-> attributes]
  ELSE LET list == DictGet(attributes, group)
           entry == Len(list) - 1
       IN IF entry < 0
          THEN [err |-> "IndexError", attributes |-> attributes]
          ELSE LET attribute == list[entry + 1]
                   list_value == IF ~IsList(attribute.value)
                                 THEN PyList(<<attribute.value>>)
                                 ELSE attribute.value
                   extended == PyList(Append(list_value.v, value))
               IN [err |-> "None",
                   attributes |->
                     DictSet(attributes, group,
                             [list EXCEPT ![entry + 1].value = extended])]

\* the new attribute is put in front of the list
add_attribute_prepends(attributes, group, value_type, value_name, value) ==
  IF ~HasKey(attributes, group)
  THEN [err |-> "KeyError", attributes |-> attributes]
  ELSE [err |-> "None",
        attributes |->
          DictSet(attributes, group,
                  <<[type |-> value_type, name |-> value_name,
                     value |-> value]>> \o DictGet(attributes, group))]

add_attribute(attributes, group, value_type, value_name, value) ==
  IF ~HasKey(attributes, group)
  THEN [err |-> "KeyError", attributes |-> attributes]
  ELSE [err |-> "None",
        attributes |->
          DictSet(attributes, group,
                  Append(DictGet(attributes, group),
                         [type |-> value_type, name |-> value_name,
                          value |-> value]))]

(***************************************************************************)
(* The walker: main().  |w| holds main's locals and what the run has       *)
(* produced:                                                               *)
(*   i, ipp_attributes, current_attributes_group, prev_value_type,         *)
(*   ascii_val, cur_value_type, name_length, name, value_length, value     *)
(*            the locals of main ("None", -1 or PyNone while unassigned)   *)
(*   pc       "loop" inside the while loop, "done" after the output file   *)
(*            was written, "failed" after SystemExit or an exception       *)
(*   err      the failure, "None" while there is none                      *)
(*   output   what was written to the output file                          *)
(*   max_read history: the highest index of ascii_values accessed so far   *)
(*   last_vals history: the values extracted for the last attribute of     *)
(*            the current group, in the order they were handed to          *)
(*            add_attribute / extend_attribute_values                      *)
(*   tag_positions history: the value of i at each evaluation of the loop  *)
(*            condition of l.267, in order                                 *)
(***************************************************************************)
NoOutput == [written |-> FALSE, doc |-> <<>>]

InitWalker ==
  [i |-> 0, ipp_attributes |-> <<>>, current_attributes_group |-> "None",
   prev_value_type |-> "None", ascii_val |-> -1, cur_value_type |-> "None",
   name_length |-> -1, name |-> PyNone, value_length |-> -1,
   value |-> PyNone, pc |-> "loop", err |-> "None", output |-> NoOutput,
   max_read |-> -1, last_vals |-> <<>>, tag_positions |-> <<>>]

Fail(w, kind) == [w EXCEPT !.pc = "failed", !.err = kind]

\* the output file is written before the end of input is looked at
after_loop_writes_first(data, w) ==
  LET written == [w EXCEPT !.output = [written |-> TRUE,
                                       doc |-> w.ipp_attributes]]
  IN IF w.i >= Len(data)
     THEN Fail(written, "UnterminatedMessage")
     ELSE [written EXCEPT !.pc = "done"]

\* the end of input is only seen past the length
after_loop_off_by_one(data, w) ==
  IF w.i > Len(data)
  THEN Fail(w, "UnterminatedMessage")
  ELSE [w EXCEPT !.pc = "done",
                 !.output = [written |-> TRUE, doc |-> w.ipp_attributes]]

\* l.299-304: after the loop, by break or by exhausting the input
after_loop(data, w) ==
  IF w.i >= Len(data)
  THEN Fail(w, "UnterminatedMessage")
  ELSE [w EXCEPT !.pc = "done",
                 !.output = [written |-> TRUE, doc |-> w.ipp_attributes]]

\* l.267, 299-301: the loop condition fails
end_of_input(data, w) ==
  after_loop(data, [w EXCEPT !.tag_positions = Append(@, w.i)])

\* the terminator is consumed before the break
terminator_consumes(data, w) ==
  after_loop(data, [w EXCEPT !.ascii_val = data[w.i + 1],
                             !.max_read = Max(@, w.i),
                             !.tag_positions = Append(@, w.i),
                             !.i = @ + 1])

\* l.268-273: the tag is endOfAttributes: break, then l.299-304
terminator(data, w) ==
  after_loop(data, [w EXCEPT !.ascii_val = data[w.i + 1],
                             !.max_read = Max(@, w.i),
                             !.tag_positions = Append(@, w.i)])

\* a group seen before keeps its attributes
group_delimiter_keeps(data, w) ==
  LET ascii_val == data[w.i + 1]
      group == get_delimiter_name(ascii_val)
  IN [w EXCEPT !.ascii_val = ascii_val,
               !.max_read = Max(@, w.i),
               !.current_attributes_group = group,
               !.ipp_attributes = IF HasKey(w.ipp_attributes, group) THEN @
                                  ELSE DictSet(@, group, <<>>),
               !.i = @ + 1,
               !.last_vals = <<>>,
               !.tag_positions = Append(@, w.i)]

\* the cursor is not advanced past the delimiter
group_delimiter_stays(data, w) ==
  LET ascii_val == data[w.i + 1]
      group == get_delimiter_name(ascii_val)
  IN [w EXCEPT !.ascii_val = ascii_val,
               !.max_read = Max(@, w.i),
               !.current_attributes_group = group,
               !.ipp_attributes = DictSet(w.ipp_attributes, group, <<>>),
               !.last_vals = <<>>,
               !.tag_positions = Append(@, w.i)]

\* l.268-277: the tag is a group delimiter
group_delimiter(data, w) ==
  LET ascii_val == data[w.i + 1]
      group == get_delimiter_name(ascii_val)
  IN [w EXCEPT !.ascii_val = ascii_val,
               !.max_read = Max(@, w.i),
               !.current_attributes_group = group,
               !.ipp_attributes = DictSet(w.ipp_attributes, group, <<>>),
               !.i = @ + 1,
               !.last_vals = <<>>,
               !.tag_positions = Append(@, w.i)]

\* the types are not compared
is_additional_value_any_type(cur_value_type, prev_value_type, name_length) ==
  name_length = 0

\* the name length is not looked at
is_additional_value_any_name(cur_value_type, prev_value_type, name_length) ==
  cur_value_type = prev_value_type

\* l.289: the current entry is one more value of the previous attribute
is_additional_value(cur_value_type, prev_value_type, name_length) ==
  cur_value_type = prev_value_type /\ name_length = 0

\* l.289-297: fold the value into the previous attribute or add a new one
store_value(w) ==
  LET more == is_additional_value(w.cur_value_type, w.prev_value_type,
                                  w.name_length)
      r == IF more
           THEN extend_attribute_values(w.ipp_attributes,
                                        w.current_attributes_group, w.value)
           ELSE add_attribute(w.ipp_attributes, w.current_attributes_group,
                              w.cur_value_type, w.name, w.value)
  IN IF r.err # "None" THEN Fail(w, r.err)
     ELSE [w EXCEPT !.ipp_attributes = r.attributes,
                    !.prev_value_type = w.cur_value_type,
                    !.last_vals = IF more THEN Append(@, w.value)
                                  ELSE <<w.value>>]

\* l.287: |v| is what extract_value returned
got_value(w, v) ==
  IF v.err # "None"
  THEN Fail([w EXCEPT !.max_read = Max(@, v.hi)], v.err)
  ELSE store_value([w EXCEPT !.value = v.value, !.i = v.next,
                             !.max_read = Max(@, v.hi)])

\* l.286: |vl| is what extract_length returned for the value
got_value_length(data, w, vl) ==
  IF vl.err # "None"
  THEN Fail([w EXCEPT !.max_read = Max(@, vl.hi)], vl.err)
  ELSE got_value([w EXCEPT !.value_length = vl.value, !.i = vl.next,
                           !.max_read = Max(@, vl.hi)],
                 extract_value(data, w.cur_value_type, vl.next, vl.value))

\* l.284: |nm| is what extract_string_value returned for the name
got_name(data, w, nm) ==
  IF nm.err # "None"
  THEN Fail([w EXCEPT !.max_read = Max(@, nm.hi)], nm.err)
  ELSE got_value_length(data,
                        [w EXCEPT !.name = nm.value, !.i = nm.next,
                                  !.max_read = Max(@, nm.hi)],
                        extract_length(data, nm.next))

\* l.283: |nl| is what extract_length returned for the name
got_name_length(data, w, nl) ==
  IF nl.err # "None"
  THEN Fail([w EXCEPT !.max_read = Max(@, nl.hi)], nl.err)
  ELSE got_name(data,
                [w EXCEPT !.name_length = nl.value, !.i = nl.next,
                          !.max_read = Max(@, nl.hi)],
                extract_string_value(data, nl.next, nl.value))

\* l.280-281: |t| is what get_value_type returned
got_value_type(data, w, t) ==
  IF t.err # "None" THEN Fail(w, t.err)
  ELSE got_name_length(data,
                       [w EXCEPT !.cur_value_type = t.type, !.i = @ + 1],
                       extract_length(data, w.i + 1))

\* l.268-269, 278-297: the tag is a value tag
value_entry(data, w) ==
  got_value_type(data,
                 [w EXCEPT !.ascii_val = data[w.i + 1],
                           !.max_read = Max(@, w.i),
                           !.tag_positions = Append(@, w.i)],
                 get_value_type(data[w.i + 1]))

\* one iteration of the while loop of l.267, or its exit
iterate(data, w) ==
  IF w.i < Len(data)
  THEN LET ascii_val == data[w.i + 1] IN
       IF is_ipp_delimiter(ascii_val)
       THEN IF ascii_val = 3 THEN terminator(data, w)
            ELSE group_delimiter(data, w)
       ELSE value_entry(data, w)
  ELSE end_of_input(data, w)

\* main() as a function of its input: the walker's final state
RECURSIVE run_from(_, _)
run_from(data, w) ==
  IF w.pc # "loop" THEN w ELSE run_from(data, iterate(data, w))

run(data) == run_from(data, InitWalker)

(***************************************************************************)
(* The inputs: a message is MaxChunks or fewer well-formed chunks (group   *)
(* delimiters, value entries of the tag under study with and without a     *)
(* name, value entries of another tag) followed by a last chunk that is    *)
(* the terminator, the terminator and trailing bytes, a byte that is no    *)
(* tag, or (after MaxCutLead or fewer chunks) a value entry cut anywhere    *)
(* or with another declared length.                                        *)
(***************************************************************************)
TagList ==
  <<19, 33, 34, 35, 48, 49, 50, 51, 52, 55, 65, 66, 68, 69, 70, 71, 72, 73,
    74>>

\* bytes that are neither a delimiter nor a value tag
BadTags == {153}

\* the tags and the second group delimiter of the messages of study k
StudyTag(k) == TagList[k]
OtherTag(k) == TagList[((k + 1) % Len(TagList)) + 1]
SecondDelimiter(k) == IF k % 2 = 0 THEN 2 ELSE 4

\* the value bytes of sample s for a tag
SampleValue(tag, s) ==
  CASE tag \in {33, 35} -> <<255 * (s % 2), 0, 1, s>>
    [] tag = 34 -> <<s % 2>>
    [] tag = 50 -> <<0, 0, 0, s, 128 * (s % 2), 0, 1, s, 3>>
    [] tag = 51 -> <<0, 0, 0, s, 128 + s, 255, 1, s>>
    [] OTHER -> [j \in 1..s |-> 96 + s + j]

Len2(n) == <<n \div 256, n % 256>>

Entry(tag, name, declared, bytes) ==
  <<tag>> \o Len2(Len(name)) \o name \o Len2(declared) \o bytes

SampleName == <<110>>

Symbols == {"g1", "g2", "a0", "a1", "o0"}

\* the bytes of the chunk |sym| at position pos of a message of study k
Chunk(k, sym, pos) ==
  LET s == pos % MaxSample
      a == SampleValue(StudyTag(k), s)
      o == SampleValue(OtherTag(k), s)
  IN CASE sym = "g1" -> <<1>>
       [] sym = "g2" -> <<SecondDelimiter(k)>>
       [] sym = "a0" -> Entry(StudyTag(k), <<>>, Len(a), a)
       [] sym = "a1" -> Entry(StudyTag(k), SampleName, Len(a), a)
       [] sym = "o0" -> Entry(OtherTag(k), <<>>, Len(o), o)

RECURSIVE Expand(_, _, _)
Expand(k, syms, pos) ==
  IF pos > Len(syms) THEN <<>>
  ELSE Chunk(k, syms[pos], pos) \o Expand(k, syms, pos + 1)

Prefixes(seq) == {SubSeq(seq, 1, n) : n \in 0..Len(seq)}

\* the well-formed part: it starts with a group delimiter
Leads ==
  {syms \in UNION {[1..n -> Symbols] : n \in 0..MaxChunks} :
     Len(syms) > 0 => syms[1] \in {"g1", "g2"}}

\* the terminator, alone or with bytes after it, a byte that is no tag, or
\* nothing
Closings(k) ==
  {<<>>, <<3>>, <<3, StudyTag(k)>>}
  \cup {<<3, b>> : b \in BadTags} \cup {<<b>> : b \in BadTags}

\* a named entry, and entries declaring one byte more or one byte less than
\* the sample (with and without the bytes declared), each cut anywhere; an
\* entry whose name, and one whose value, is declared 256 bytes longer than
\* it is
CutEntries(k, pos) ==
  LET s == pos % MaxSample
      a == SampleValue(StudyTag(k), s)
  IN Prefixes(Entry(StudyTag(k), SampleName, Len(a), a))
     \cup Prefixes(Entry(StudyTag(k), <<>>, Len(a) + 1, a \o <<7>>))
     \cup Prefixes(Entry(StudyTag(k), <<>>, Len(a) + 1, a))
     \cup (IF a = <<>> THEN {}
           ELSE Prefixes(Entry(StudyTag(k), <<>>, Len(a) - 1,
                               SubSeq(a, 1, Len(a) - 1))))
     \cup {<<StudyTag(k)>> \o Len2(Len(SampleName) + 256) \o SampleName,
           Entry(StudyTag(k), <<>>, Len(a) + 256, a)}

LastChunks(k, pos) ==
  Closings(k) \cup (IF pos - 1 <= MaxCutLead THEN CutEntries(k, pos) ELSE {})

(***************************************************************************)
(* The state machine.                                                      *)
(***************************************************************************)
VARIABLES ascii_values, i, ipp_attributes, current_attributes_group,
          prev_value_type, ascii_val, cur_value_type, name_length, name,
          value_length, value, pc, err, output, max_read, last_vals,
          tag_positions

vars == <<ascii_values, i, ipp_attributes, current_attributes_group,
          prev_value_type, ascii_val, cur_value_type, name_length, name,
          value_length, value, pc, err, output, max_read, last_vals,
          tag_positions>>

\* the walker's state as a record, and back
Walker ==
  [i |-> i, ipp_attributes |-> ipp_attributes,
   current_attributes_group |-> current_attributes_group,
   prev_value_type |-> prev_value_type, ascii_val |-> ascii_val,
   cur_value_type |-> cur_value_type, name_length |-> name_length,
   name |-> name, value_length |-> value_length, value |-> value,
   pc |-> pc, err |-> err, output |-> output, max_read |-> max_read,
   last_vals |-> last_vals, tag_positions |-> tag_positions]

Becomes(w) ==
  /\ i' = w.i
  /\ ipp_attributes' = w.ipp_attributes
  /\ current_attributes_group' = w.current_attributes_group
  /\ prev_value_type' = w.prev_value_type
  /\ ascii_val' = w.ascii_val
  /\ cur_value_type' = w.cur_value_type
  /\ name_length' = w.name_length
  /\ name' = w.name
  /\ value_length' = w.value_length
  /\ value' = w.value
  /\ pc' = w.pc
  /\ err' = w.err
  /\ output' = w.output
  /\ max_read' = w.max_read
  /\ last_vals' = w.last_vals
  /\ tag_positions' = w.tag_positions

Init ==
  /\ \E k \in 1..Len(TagList) : \E syms \in Leads :
       \E last \in LastChunks(k, Len(syms) + 1) :
         ascii_values = Expand(k, syms, 1) \o last
  /\ i = InitWalker.i
  /\ ipp_attributes = InitWalker.ipp_attributes
  /\ current_attributes_group = InitWalker.current_attributes_group
  /\ prev_value_type = InitWalker.prev_value_type
  /\ ascii_val = InitWalker.ascii_val
  /\ cur_value_type = InitWalker.cur_value_type
  /\ name_length = InitWalker.name_length
  /\ name = InitWalker.name
  /\ value_length = InitWalker.value_length
  /\ value = InitWalker.value
  /\ pc = InitWalker.pc
  /\ err = InitWalker.err
  /\ output = InitWalker.output
  /\ max_read = InitWalker.max_read
  /\ last_vals = InitWalker.last_vals
  /\ tag_positions = InitWalker.tag_positions

GroupDelimiter ==
  /\ pc = "loop"
  /\ i < Len(ascii_values)
  /\ is_ipp_delimiter(ascii_values[i + 1])
  /\ ascii_values[i + 1] # 3
  /\ Becomes(group_delimiter(ascii_values, Walker))
  /\ UNCHANGED ascii_values

Terminator ==
  /\ pc = "loop"
  /\ i < Len(ascii_values)
  /\ is_ipp_delimiter(ascii_values[i + 1])
  /\ ascii_values[i + 1] = 3
  /\ Becomes(terminator(ascii_values, Walker))
  /\ UNCHANGED ascii_values

ValueEntry ==
  /\ pc = "loop"
  /\ i < Len(ascii_values)
  /\ ~is_ipp_delimiter(ascii_values[i + 1])
  /\ Becomes(value_entry(ascii_values, Walker))
  /\ UNCHANGED ascii_values

EndOfInput ==
  /\ pc = "loop"
  /\ ~(i < Len(ascii_values))
  /\ Becomes(end_of_input(ascii_values, Walker))
  /\ UNCHANGED ascii_values

Next == GroupDelimiter \/ Terminator \/ ValueEntry \/ EndOfInput

Spec == Init /\ [][Next]_vars

\* main() is a sequential program that is never suspended: it takes its next
\* step as long as it has one.  A step is possible exactly inside the loop
\* (the guards of the four actions cover every state with pc = "loop", and
\* each of them changes tag_positions or pc), so that weak fairness of Next,
\* WF_vars(Next), is: the walker is out of the loop again and again, or it
\* takes a step again and again.
FairSpec == Spec /\ ([]<>(pc # "loop") \/ []<><<Next>>_vars)

TypeOK ==
  /\ pc \in {"loop", "done", "failed"}
  /\ i \in 0..Len(ascii_values)

(***************************************************************************)
(* The layout of a value entry whose tag is at index p of |data|, read     *)
(* off the bytes: tag, 2-byte name length, name, 2-byte value length,      *)
(* value.                                                                  *)
(***************************************************************************)
Delimiters == {1, 2, 3, 4}
GroupDelimiters == {1, 2, 4}
TagSet == {TagList[k] : k \in DOMAIN TagList}

GroupNameOf(byte) ==
  CASE byte = 1 -> "operationAttributes"
    [] byte = 2 -> "jobAttributes"
    [] byte = 4 -> "printerAttributes"
    [] OTHER -> ""

\* the length a fixed-size type requires, -1 for the other types
RequiredLength(tag) ==
  CASE tag = 34 -> 1
    [] tag \in {33, 35} -> 4
    [] tag = 50 -> 9
    [] tag = 51 -> 8
    [] OTHER -> -1

HasNameLength(data, p) == p + 3 <= Len(data)
DeclaredNameLength(data, p) == (256 * data[p + 2]) + data[p + 3]
NameStart(data, p) == p + 3
HasName(data, p) ==
  /\ HasNameLength(data, p)
  /\ NameStart(data, p) + DeclaredNameLength(data, p) <= Len(data)
HasValueLength(data, p) ==
  /\ HasName(data, p)
  /\ NameStart(data, p) + DeclaredNameLength(data, p) + 2 <= Len(data)
ValueStart(data, p) == NameStart(data, p) + DeclaredNameLength(data, p) + 2
DeclaredValueLength(data, p) ==
  (256 * data[ValueStart(data, p) - 1]) + data[ValueStart(data, p)]
HasValue(data, p) ==
  /\ HasValueLength(data, p)
  /\ ValueStart(data, p) + DeclaredValueLength(data, p) <= Len(data)

\* fewer bytes follow the tag at p than its entry declares
Truncated(data, p) == ~HasValue(data, p)

\* the entry at p is complete and of the length its type requires
WellFormedEntry(data, p) ==
  /\ data[p + 1] \in TagSet
  /\ HasValue(data, p)
  /\ RequiredLength(data[p + 1]) # -1 =>
       DeclaredValueLength(data, p) = RequiredLength(data[p + 1])

\* the position and the byte of the last tag the walker looked at
LastPos == tag_positions[Len(tag_positions)]
AtTag == tag_positions # <<>> /\ LastPos < Len(ascii_values)
LastTag == ascii_values[LastPos + 1]
\* the walker's last iteration was on a recognized value tag
AfterValueTag == AtTag /\ LastTag \in TagSet

\* the last attribute of the current group
LastAttribute ==
  LET list == DictGet(ipp_attributes, current_attributes_group)
  IN list[Len(list)]

(***************************************************************************)
(* C1  All or nothing: the output is written only by a run that met the    *)
(* terminator 3 in tag position and ended without error; a run that is     *)
(* still going or that failed has written nothing.                         *)
(***************************************************************************)
AllOrNothing ==
  /\ output.written =>
       /\ pc = "done" /\ err = "None"
       /\ AtTag /\ LastTag = 3
       /\ output.doc = ipp_attributes
  /\ pc # "done" => output = NoOutput

\* a run that failed after it had collected an attribute
AllOrNothingWitness ==
  /\ pc = "failed"
  /\ \E j \in 1..Len(ipp_attributes) : ipp_attributes[j].val # <<>>
  /\ output = NoOutput

(***************************************************************************)
(* C2  Fold law: when two or three values went to the last attribute of    *)
(* the current group, its value is the sequence of exactly those values.   *)
(***************************************************************************)
FoldLaw ==
  (/\ HasKey(ipp_attributes, current_attributes_group)
   /\ Len(last_vals) \in {2, 3})
  => LastAttribute.value = PyList(last_vals)

(***************************************************************************)
(* C3  The first well-formed value entry after a group delimiter is        *)
(* appended to the (empty) group as a new attribute, whatever its type     *)
(* and name length.                                                        *)
(***************************************************************************)
FirstEntryAppended ==
  (/\ Len(tag_positions) >= 2
   /\ AfterValueTag
   /\ ascii_values[tag_positions[Len(tag_positions) - 1] + 1]
        \in GroupDelimiters
   /\ WellFormedEntry(ascii_values, LastPos))
  => /\ pc = "loop"
     /\ Len(DictGet(ipp_attributes, current_attributes_group)) = 1
     /\ last_vals = <<value>>

(***************************************************************************)
(* C4  Fixed-size enforcement.  The case: the last entry is of a fixed-    *)
(* size type and declares a value length other than the required one.      *)
(***************************************************************************)
FixedLengthCase ==
  /\ AfterValueTag
  /\ RequiredLength(LastTag) # -1
  /\ HasValueLength(ascii_values, LastPos)
  /\ DeclaredValueLength(ascii_values, LastPos) # RequiredLength(LastTag)

\* C4 as claimed: the run fails with InvalidFixedLength, also when fewer
\* than the declared number of bytes remain, and no value byte is accessed
FixedLengthBeforeBounds ==
  FixedLengthCase
  => /\ pc = "failed" /\ err = "InvalidFixedLength"
     /\ max_read < ValueStart(ascii_values, LastPos)

\* C4 as amended: the run fails with InvalidFixedLength when the declared
\* number of bytes remain, with OutOfBounds when fewer remain; in both
\* cases no byte of the value is accessed
FixedLengthEnforced ==
  FixedLengthCase
  => /\ pc = "failed"
     /\ err = IF HasValue(ascii_values, LastPos) THEN "InvalidFixedLength"
              ELSE "OutOfBounds"
     /\ max_read < ValueStart(ascii_values, LastPos)

FixedLengthWitness ==
  /\ FixedLengthCase
  /\ HasValue(ascii_values, LastPos)
  /\ err = "InvalidFixedLength"

(***************************************************************************)
(* C5  Bounds safety: no index at or past the length of the stream is      *)
(* accessed; a value entry followed by fewer bytes than it declares fails  *)
(* with OutOfBounds; the name and the value of an entry that was           *)
(* extracted are the declared bytes, all of them.                          *)
(***************************************************************************)
DeclaredName(data, p) ==
  SubSeq(data, NameStart(data, p) + 1,
         NameStart(data, p) + DeclaredNameLength(data, p))

BoundsSafety ==
  /\ max_read < Len(ascii_values)
  /\ (AfterValueTag /\ Truncated(ascii_values, LastPos))
       => pc = "failed" /\ err = "OutOfBounds"
  /\ (AfterValueTag /\ pc = "loop")
       => /\ HasValue(ascii_values, LastPos)
          /\ name_length = DeclaredNameLength(ascii_values, LastPos)
          /\ name = PyStr(DeclaredName(ascii_values, LastPos))
          /\ value_length = DeclaredValueLength(ascii_values, LastPos)
          /\ (value.py = "str" \/ LastTag \in {48, 49})
               => Len(value.v) = value_length

\* an entry whose value is cut short
BoundsSafetyWitness ==
  /\ AfterValueTag
  /\ HasValueLength(ascii_values, LastPos)
  /\ ~HasValue(ascii_values, LastPos)
  /\ err = "OutOfBounds"

(***************************************************************************)
(* C6  Unterminated message: when the loop condition finds the cursor at   *)
(* the end of the stream, the run fails with UnterminatedMessage and       *)
(* writes nothing.                                                         *)
(***************************************************************************)
UnterminatedFails ==
  (tag_positions # <<>> /\ LastPos >= Len(ascii_values))
  => /\ pc = "failed" /\ err = "UnterminatedMessage"
     /\ output = NoOutput

\* the stream ends right after a complete value entry
UnterminatedWitness ==
  /\ err = "UnterminatedMessage"
  /\ last_vals # <<>>

(***************************************************************************)
(* C7  Terminator: when the tag looked at is 3 the run is done without     *)
(* error, the cursor stays on the terminator, and the document written is  *)
(* the one built from the bytes before it, whatever follows; 01 03 gives   *)
(* operationAttributes with an empty list.                                 *)
(***************************************************************************)
TerminatorDone ==
  (AtTag /\ LastTag = 3)
  => /\ pc = "done" /\ err = "None"
     /\ i = LastPos /\ max_read = LastPos
     /\ output = [written |-> TRUE, doc |-> ipp_attributes]
     /\ output.doc = run(SubSeq(ascii_values, 1, LastPos)).ipp_attributes
     /\ output = run(SubSeq(ascii_values, 1, LastPos + 1)).output
     /\ SubSeq(ascii_values, 1, LastPos + 1) = <<1, 3>>
          => output.doc = <<[key |-> "operationAttributes", val |-> <<>>]>>

\* a run that is done with attributes collected and bytes left unread
TerminatorWitness ==
  /\ pc = "done"
  /\ last_vals # <<>>
  /\ LastPos + 1 < Len(ascii_values)

(***************************************************************************)
(* C8  Value before group: a recognized value tag met while no group is    *)
(* active fails with ValueBeforeGroup and adds nothing to the document.    *)
(***************************************************************************)
ValueBeforeGroup ==
  (AfterValueTag /\ current_attributes_group = "None")
  => /\ pc = "failed" /\ err = "ValueBeforeGroup"
     /\ ipp_attributes = <<>>

(***************************************************************************)
(* C9  Unsupported value tag: a byte in tag position that is neither a     *)
(* delimiter nor a value tag fails with UnsupportedValueTag; nothing after *)
(* the tag is read, the locals and the document are as the bytes before    *)
(* the tag left them, and nothing is written.                              *)
(***************************************************************************)
UnsupportedTagFails ==
  (AtTag /\ LastTag \notin Delimiters \cup TagSet)
  => /\ pc = "failed" /\ err = "UnsupportedValueTag"
     /\ i = LastPos /\ max_read = LastPos
     /\ output = NoOutput
     /\ LET before == run(SubSeq(ascii_values, 1, LastPos))
        IN /\ ipp_attributes = before.ipp_attributes
           /\ name_length = before.name_length
           /\ name = before.name
           /\ value_length = before.value_length
           /\ value = before.value

\* an unsupported tag after an attribute was collected
UnsupportedTagWitness ==
  /\ AtTag /\ LastTag \in BadTags
  /\ last_vals # <<>>
  /\ err = "UnsupportedValueTag"

(***************************************************************************)
(* C10  Group reset: right after a group delimiter the named group is the  *)
(* current one and its list is empty; in the document written each group   *)
(* holds what the bytes from the last occurrence of its delimiter on give  *)
(* it.                                                                     *)
(***************************************************************************)
\* the position of the last delimiter of |group| the walker looked at
LastDelimiter(group) ==
  LET ns == {n \in 1..Len(tag_positions) :
               GroupNameOf(ascii_values[tag_positions[n] + 1]) = group}
  IN tag_positions[CHOOSE n \in ns : \A m \in ns : m <= n]

GroupReset ==
  /\ (pc = "loop" /\ AtTag /\ LastTag \in GroupDelimiters)
       => /\ current_attributes_group = GroupNameOf(LastTag)
          /\ HasKey(ipp_attributes, current_attributes_group)
          /\ DictGet(ipp_attributes, current_attributes_group) = <<>>
          /\ i = LastPos + 1
  /\ pc = "done"
       => \A j \in 1..Len(output.doc) :
            LET group == output.doc[j].key
                from == LastDelimiter(group)
                alone == run(SubSeq(ascii_values, from + 1, i + 1))
            IN /\ alone.pc = "done"
               /\ output.doc[j].val = DictGet(alone.ipp_attributes, group)

\* a document written after a group that held an attribute was met again
GroupResetWitness ==
  /\ pc = "done"
  /\ \E n \in 1..Len(tag_positions) : \E m \in 1..Len(tag_positions) :
       /\ n + 1 < m
       /\ ascii_values[tag_positions[n] + 1] \in GroupDelimiters
       /\ ascii_values[tag_positions[n + 1] + 1] \in TagSet
       /\ ascii_values[tag_positions[m] + 1]
            = ascii_values[tag_positions[n] + 1]

(***************************************************************************)
(* C11  Empty name and folding.  The walker's last iteration processed a   *)
(* value entry: it folded it when more than one value went to the last     *)
(* attribute, and added it as a new attribute otherwise.                   *)
(***************************************************************************)
EntryProcessed == AfterValueTag /\ pc = "loop"
EntryFolded == EntryProcessed /\ Len(last_vals) >= 2
EntryAdded == EntryProcessed /\ Len(last_vals) = 1

\* C11 as claimed: the name of a processed entry is empty exactly when the
\* entry was folded
EmptyNameIffFolded ==
  EntryProcessed => (DeclaredNameLength(ascii_values, LastPos) = 0
                       <=> EntryFolded)

\* C11 as amended: an entry that was folded has an empty name
FoldedHasEmptyName ==
  EntryFolded
  => /\ DeclaredNameLength(ascii_values, LastPos) = 0
     /\ name_length = 0
     /\ name = PyStr(<<>>)

\* an entry with an empty name was folded into an attribute that has a name
FoldedHasEmptyNameWitness ==
  /\ EntryFolded
  /\ LastAttribute.name # PyStr(<<>>)

(***************************************************************************)
(* C13  Fold rule: a well-formed value entry met while a group is active   *)
(* is folded (the group keeps its length) exactly when the tag looked at   *)
(* just before it is a value tag of the same type, hence an entry of the   *)
(* same group, and its declared name length is zero; otherwise it is       *)
(* added and the group grows by one.                                       *)
(***************************************************************************)
\* the document before the walker's last iteration
DocumentBefore == run(SubSeq(ascii_values, 1, LastPos)).ipp_attributes

ShouldFold ==
  /\ Len(tag_positions) >= 2
  /\ ascii_values[tag_positions[Len(tag_positions) - 1] + 1] = LastTag
  /\ DeclaredNameLength(ascii_values, LastPos) = 0

FoldRule ==
  (/\ AfterValueTag
   /\ WellFormedEntry(ascii_values, LastPos)
   /\ current_attributes_group # "None")
  => /\ pc = "loop"
     /\ LET was == Len(DictGet(DocumentBefore, current_attributes_group))
            now == Len(DictGet(ipp_attributes, current_attributes_group))
        IN IF ShouldFold THEN EntryFolded /\ now = was
           ELSE EntryAdded /\ now = was + 1

(***************************************************************************)
(* C14  Cursor invariant: the cursor i is always within 0..length of the   *)
(* stream, and no step decreases it.                                       *)
(***************************************************************************)
CursorInvariant ==
  /\ [](i \in 0..Len(ascii_values))
  /\ [][i' >= i]_vars

\* the cursor has moved to the very end of a stream that is not empty
CursorWitness ==
  /\ i > 0
  /\ i = Len(ascii_values)
  /\ EntryProcessed

(***************************************************************************)
(* C15  Termination: the walker reaches done or failed; each step is taken *)
(* inside the loop, and a step that leaves the walker in the loop has      *)
(* strictly increased the cursor; the iterations of the loop (each looks   *)
(* at one tag) are no more than the bytes of the stream.                   *)
(***************************************************************************)
Iterations ==
  Cardinality({n \in 1..Len(tag_positions) :
                 tag_positions[n] < Len(ascii_values)})

Termination ==
  /\ <>(pc \in {"done", "failed"})
  /\ [][pc = "loop" /\ (pc' = "loop" => i' > i)]_vars
  /\ [](Iterations <= Len(ascii_values))

\* a run that took as many iterations as the stream has bytes
TerminationWitness ==
  /\ pc = "done"
  /\ Len(ascii_values) >= 3
  /\ Iterations = Len(ascii_values)


(***************************************************************************)
(* C16  Integer decoding: the four bytes b0 b1 b2 b3 of an integer or enum *)
(* decode to b0*2^24 + b1*2^16 + b2*2^8 + b3, a value in 0..2^32-1 (never  *)
(* a negative one); both integers of a resolution and of a rangeOfInteger  *)
(* decode by the same rule, and the two bytes b0 b1 of a length field      *)
(* decode to 256*b0 + b1.                                                  *)
(***************************************************************************)
\* b0*2^24 + b1*2^16 + b2*2^8 + b3 for the bytes at s..s+3 of |data|, as a
\* Python int
Unsigned32(data, s) ==
  PyBig(<<(256 * data[s + 1]) + data[s + 2],
          (256 * data[s + 3]) + data[s + 4]>>)

\* n is a Python int in 0..2^32-1
InUnsigned32(n) ==
  /\ n.py = "int"
  /\ n.v[1] \in 0..65535
  /\ n.v[2] \in 0..65535

IntegerDecoding ==
  AfterValueTag =>
    /\ HasNameLength(ascii_values, LastPos)
         => name_length = (256 * ascii_values[LastPos + 2])
                            + ascii_values[LastPos + 3]
    /\ HasValueLength(ascii_values, LastPos)
         => value_length =
              (256 * ascii_values[ValueStart(ascii_values, LastPos) - 1])
                + ascii_values[ValueStart(ascii_values, LastPos)]
    /\ WellFormedEntry(ascii_values, LastPos)
         => LET s == ValueStart(ascii_values, LastPos)
            IN CASE LastTag \in {33, 35} ->
                      /\ value = Unsigned32(ascii_values, s)
                      /\ InUnsigned32(value)
                 [] LastTag = 50 ->
                      /\ value = PyList(<<Unsigned32(ascii_values, s),
                                          Unsigned32(ascii_values, s + 4),
                                          PyInt(ascii_values[s + 9])>>)
                      /\ InUnsigned32(value.v[1])
                      /\ InUnsigned32(value.v[2])
                 [] LastTag = 51 ->
                      /\ value = PyList(<<Unsigned32(ascii_values, s),
                                          Unsigned32(ascii_values, s + 4)>>)
                      /\ InUnsigned32(value.v[1])
                      /\ InUnsigned32(value.v[2])
                 [] OTHER -> TRUE

\* an integer with a leading byte of 0x80 or above was decoded and stored
IntegerDecodingWitness ==
  /\ EntryProcessed
  /\ LastTag \in {33, 35}
  /\ ascii_values[ValueStart(ascii_values, LastPos) + 1] >= 128
  /\ value.v[1] >= 32768


(***************************************************************************)
(* C17  Frame of the assembler: a value entry changes only the tail of the *)
(* active group's list (one new last attribute, or the value of the last   *)
(* attribute); every other group's list and the earlier attributes of the  *)
(* active group stay as they are.  A group delimiter changes only the list *)
(* of the group it names.                                                  *)
(***************************************************************************)
\* the step about to be taken looks at a value tag / at a group delimiter
AtValueEntry ==
  /\ pc = "loop"
  /\ i < Len(ascii_values)
  /\ ~is_ipp_delimiter(ascii_values[i + 1])

AtGroupDelimiter ==
  /\ pc = "loop"
  /\ i < Len(ascii_values)
  /\ ascii_values[i + 1] \in GroupDelimiters

\* |new| is |old| with one attribute more at its end, or with another value
\* in its last attribute
TailChanged(old, new) ==
  \/ /\ Len(new) = Len(old) + 1
     /\ SubSeq(new, 1, Len(old)) = old
  \/ /\ Len(new) = Len(old)
     /\ Len(old) > 0
     /\ \A m \in 1..(Len(old) - 1) : new[m] = old[m]
     /\ new[Len(old)].type = old[Len(old)].type
     /\ new[Len(old)].name = old[Len(old)].name
     /\ new[Len(old)].value # old[Len(old)].value

ValueEntryFrame ==
  /\ current_attributes_group' = current_attributes_group
  /\ DictKeys(ipp_attributes') = DictKeys(ipp_attributes)
  /\ \A j \in 1..Len(ipp_attributes) :
       IF pc' = "loop" /\ ipp_attributes[j].key = current_attributes_group
       THEN TailChanged(ipp_attributes[j].val, ipp_attributes'[j].val)
       ELSE ipp_attributes'[j] = ipp_attributes[j]
  /\ pc' = "loop" => HasKey(ipp_attributes, current_attributes_group)

GroupDelimiterFrame ==
  LET named == GroupNameOf(ascii_values[i + 1])
  IN /\ \A j \in 1..Len(ipp_attributes) :
          ipp_attributes[j].key # named
            => /\ j <= Len(ipp_attributes')
               /\ ipp_attributes'[j] = ipp_attributes[j]
     /\ \A j \in 1..Len(ipp_attributes') :
          \/ ipp_attributes'[j].key = named
          \/ j <= Len(ipp_attributes) /\ ipp_attributes'[j] = ipp_attributes[j]

AssemblerFrame ==
  [][/\ AtValueEntry => ValueEntryFrame
     /\ AtGroupDelimiter => GroupDelimiterFrame]_vars

\* a value was stored in the active group while the other group of the
\* document holds an attribute
AssemblerFrameWitness ==
  /\ EntryProcessed
  /\ Len(ipp_attributes) = 2
  /\ \A j \in 1..2 : Len(ipp_attributes[j].val) >= 1


(***************************************************************************)
(* C18  Group order of the document: the groups of the final document are  *)
(* in the order in which their delimiters first occurred in the stream; a  *)
(* delimiter that occurs again does not move its group behind groups seen  *)
(* first after it.                                                         *)
(***************************************************************************)
\* the names of the group delimiters the walker met, in stream order
DelimiterNames ==
  LET met == SelectSeq(tag_positions,
                       LAMBDA p : /\ p < Len(ascii_values)
                                  /\ ascii_values[p + 1] \in GroupDelimiters)
  IN [n \in 1..Len(met) |-> GroupNameOf(ascii_values[met[n] + 1])]

\* the elements of seq[1..n] in the order of their first occurrence
RECURSIVE FirstOccurrences(_, _)
FirstOccurrences(seq, n) ==
  IF n = 0 THEN <<>>
  ELSE LET before == FirstOccurrences(seq, n - 1)
       IN IF \E j \in 1..Len(before) : before[j] = seq[n] THEN before
          ELSE Append(before, seq[n])

GroupOrder ==
  pc = "done" =>
    /\ output.written
    /\ DictKeys(output.doc)
         = FirstOccurrences(DelimiterNames, Len(DelimiterNames))

\* the first group of the document was met again after the second one
GroupOrderWitness ==
  /\ pc = "done"
  /\ Len(output.doc) = 2
  /\ Len(DelimiterNames) >= 3
  /\ DelimiterNames[Len(DelimiterNames)] = output.doc[1].key


(***************************************************************************)
(* C19  Previous-type consistency: whenever the active group holds an      *)
(* attribute, the remembered previous type is the type of the group's last *)
(* attribute; a folded value was decoded with the type of the attribute it *)
(* was folded into; the type of an attribute never changes while the       *)
(* attribute is in the document.                                           *)
(***************************************************************************)
ActiveGroupNonEmpty ==
  /\ HasKey(ipp_attributes, current_attributes_group)
  /\ DictGet(ipp_attributes, current_attributes_group) # <<>>

\* every attribute that is still in its group after the step has kept its type
TypesKept ==
  \A j \in 1..Len(ipp_attributes) :
    \A m \in 1..Len(ipp_attributes[j].val) :
      (/\ j <= Len(ipp_attributes')
       /\ m <= Len(ipp_attributes'[j].val))
      => ipp_attributes'[j].val[m].type = ipp_attributes[j].val[m].type

PreviousTypeConsistent ==
  /\ [](ActiveGroupNonEmpty => prev_value_type = LastAttribute.type)
  /\ [](EntryFolded => cur_value_type = LastAttribute.type)
  /\ [][TypesKept]_vars

\* a value was folded into the second attribute of a group whose first
\* attribute is of another type
PreviousTypeWitness ==
  /\ EntryFolded
  /\ LET list == DictGet(ipp_attributes, current_attributes_group)
     IN /\ Len(list) = 2
        /\ list[1].type # list[2].type
        /\ prev_value_type = list[2].type


(***************************************************************************)
(* C20  Exact consumption: a group delimiter moves the cursor on by 1, a   *)
(* processed value entry with declared name length n and declared value    *)
(* length m by 1 + 2 + n + 2 + m, whatever its type; the next byte looked  *)
(* at as a tag is the byte right after the declared value.                 *)
(***************************************************************************)
\* the index right after the delimiter or the entry whose tag is at p
AfterTag(data, p) ==
  IF data[p + 1] \in GroupDelimiters THEN p + 1
  ELSE p + 1 + 2 + DeclaredNameLength(data, p)
         + 2 + DeclaredValueLength(data, p)

ExactConsumption ==
  /\ \A n \in 1..(Len(tag_positions) - 1) :
       tag_positions[n + 1] = AfterTag(ascii_values, tag_positions[n])
  /\ pc = "loop" =>
       i = IF tag_positions = <<>> THEN 0 ELSE AfterTag(ascii_values, LastPos)

\* a named resolution entry was processed
ExactConsumptionWitness ==
  /\ EntryProcessed
  /\ LastTag = 50
  /\ name_length > 0
  /\ i = LastPos + 5 + name_length + 9

====
